---- MODULE Spec2Model ----
(***************************************************************************)
(* The bootc vmrun disk cache of podman machine:                           *)
(* cmd/podman/machine/bootc/vmrun.go (getOrCreateDiskImage,                *)
(* createDiskImage, vmrun).  The cache directory is a map from file names  *)
(* to inodes; every system call of the code is one step, so that callers   *)
(* running in separate processes interleave between system calls.          *)
(***************************************************************************)
EXTENDS Integers, Sequences, FiniteSets, TLC

\* ------------------------------------------------------------------ bounds

\* how many calls of getOrCreateDiskImage are made one after another
MaxCalls == 2

\* how many calls each of the racing callers makes
MaxRacingCalls == 1

\* how many times vmrun is invoked, one run after another
MaxRuns == 2

\* how many machine records are persisted at most
MaxMachines == 2

\* ------------------------------------------------------------ input domains

\* the processes that use the cache directory
Callers == {1, 2}

\* container image digests (the output of image inspect)
Digests == {"sha256:aaa", "sha256:bbb"}

\* image names, as sequences of characters; the two differ only in '/'
\* versus '_'
ImageNames == {<<"a", "/", "b">>, <<"a", "_", "b">>}

\* the image name the racing callers contend for
RacedImage == <<"a", "/", "b">>

\* ---------------------------------------------------------------- constants

\* buf := make([]byte, 4096): the buffer Fgetxattr reads into
XattrBufSize == 4096

\* -------------------------------------------------------------- file names

FinalName(base) == [kind |-> "final", base |-> base, p |-> 0, n |-> 0]

\* os.CreateTemp(dir, pattern): a name no other call has; it is modelled by
\* the pattern, the calling process and the number of its call
TempName(pattern, p, n) == [kind |-> pattern, base |-> <<>>, p |-> p, n |-> n]

\* the inode of a file that was in the cache before the run started
InitIno(base) == [kind |-> "init", base |-> base, p |-> 0, n |-> 0]

\* no name / the nil *os.File
NoName == [kind |-> "none", base |-> <<>>, p |-> 0, n |-> 0]

\* strings.ReplaceAll(s, old, new) for one-character old and new
ReplaceAll(s, old, new) == [i \in 1..Len(s) |-> IF s[i] = old THEN new ELSE s[i]]

\* diskImageName := strings.ReplaceAll(imageName, "/", "_");
\* diskPath := filepath.Join(ctx.cachedir, diskImageName)
DiskPathOf(name) == FinalName(ReplaceAll(name, "/", "_"))

CachePaths == {DiskPathOf(i) : i \in ImageNames}

\* ------------------------------------------------------- embedded metadata

NoXattr == [present |-> FALSE, val |-> <<>>]
Xattr(bytes) == [present |-> TRUE, val |-> bytes]

\* the length in bytes of one token of an attribute value
TokLen(t) == IF t = "pad4097" THEN XattrBufSize + 1 ELSE 1

RECURSIVE ByteLen(_)
ByteLen(s) == IF s = <<>> THEN 0 ELSE TokLen(Head(s)) + ByteLen(Tail(s))

\* mutant of Marshal: the field is not serialized
MarshalNoField(meta) == <<"{", "}">>

\* json.Marshal(diskFromContainerMeta{ImageDigest: d}) = {"imageDigest":"d"}
Marshal(meta) == <<"{", "imageDigest", ":", meta.ImageDigest, "}">>

\* json.Unmarshal(bytes, &serializedMeta): an object with the imageDigest key
\* sets the field, an object without it leaves the zero value "", anything
\* else (empty input, truncated or non-JSON bytes) is an error
Unmarshal(bytes) ==
    IF bytes = <<"{", "}">>
    THEN [ok |-> TRUE, ImageDigest |-> ""]
    ELSE IF Len(bytes) = 5 /\ bytes[1] = "{" /\ bytes[3] = ":" /\ bytes[5] = "}"
         THEN [ok |-> TRUE,
               ImageDigest |-> IF bytes[2] = "imageDigest" THEN bytes[4] ELSE ""]
         ELSE [ok |-> FALSE, ImageDigest |-> ""]

\* the attribute values a file found in the cache at start may carry
InitXattrs ==
    {NoXattr, Xattr(<<"junk">>), Xattr(<<"{", "}">>), Xattr(<<"pad4097">>)}
        \cup {Xattr(Marshal([ImageDigest |-> d])) : d \in Digests}

\* ----------------------------------------------------------------- state

VARIABLES
    dir,                  \* the cache directory: file name -> inode
    inodes,               \* inode -> [data, xattr, exec]
    pc,                   \* each caller's position
    imageName,            \* getOrCreateDiskImage's arguments
    imageDigest,
    f,                    \* f, err := os.Open(diskPath): the inode, or NoName for nil
    temporaryDisk,        \* createDiskImage's temporary files (name = inode)
    temporaryEntrypoint,
    doCleanupDisk,
    ret,                  \* what the call returned: [path, err]
    builds,               \* build subprocesses started by the current call
    calls,                \* calls made so far
    snap,                 \* the cache at the start, then as the sequential caller's current call found it
    prev,                 \* the sequential caller's previous call and its result
    imageStore,           \* the container engine's local images: name -> digest, "" if absent
    vmDebug,              \* options.vmDebug
    digest,               \* vmrun's locals
    disk,
    tempf,
    spawnopts,
    cmdArgs,              \* cmd.Args of the hypervisor process
    hvExit,               \* the hypervisor's exit status, -1 while it has none
    vmErr,                \* what vmrun returned
    events,               \* what the current vmrun did so far, in order
    runs,                 \* vmrun invocations so far
    spawnErr,             \* what SpawnTransient returned
    machines,             \* the persisted machine records, in directory order
    activeVM,             \* what CheckExclusiveActiveVM returned
    lsPc,                 \* List's position
    mms,                  \* List's locals
    response,
    lsErr,                \* the error List returned
    probes,               \* what mm.Vfkit.State() gave for each record probed
    loops,                \* the host's loop devices: device -> backing file, "" if free
    epPc,                 \* the entrypoint script's position
    epArgs,               \* its positional parameters
    epDisk,               \* its variables disk, dev and rc
    epDev,
    epRc,
    epInstall,            \* the installer's target and exit status, once it has run
    epExit                \* the script's exit status, -1 while it has none

\* the machine provider's state
provvars == <<machines, activeVM, lsPc, mms, response, lsErr, probes>>

\* the build container's state
epvars == <<loops, epPc, epArgs, epDisk, epDev, epRc, epInstall, epExit>>

hostvars == <<provvars, epvars>>

vmvars == <<imageStore, vmDebug, digest, disk, tempf, spawnopts, cmdArgs, hvExit,
            vmErr, events, runs, spawnErr, hostvars>>

vars == <<dir, inodes, pc, imageName, imageDigest, f, temporaryDisk,
          temporaryEntrypoint, doCleanupDisk, ret, builds, calls, snap, prev,
          vmvars>>

locals == <<imageName, imageDigest, builds, calls, snap, prev, vmvars>>

DiskPath(p) == DiskPathOf(imageName[p])

File(data, xattr, exec) == [data |-> data, xattr |-> xattr, exec |-> exec]

Range(fn) == {fn[x] : x \in DOMAIN fn}

\* the kernel frees an inode that has no name and no open descriptor
Collect(in, d, ff, td, te) ==
    LET live == Range(d) \cup Range(ff) \cup Range(td) \cup Range(te)
    IN  [i \in (DOMAIN in) \cap live |-> in[i]]

\* os.Remove(name); its error is ignored by every caller
Unlink(d, name) == [n \in (DOMAIN d) \ {name} |-> d[n]]

\* os.Rename(old, new): atomically replaces new
RenameIn(d, old, new) ==
    [n \in ((DOMAIN d) \ {old}) \cup {new} |-> IF n = new THEN d[old] ELSE d[n]]

NoErr == ""

NoCall == [valid |-> FALSE, imageName |-> <<>>, imageDigest |-> "",
           path |-> NoName, err |-> NoErr, builds |-> 0]

\* mutant of Fgetxattr: a read buffer too short for the metadata record
FgetxattrShortBuf(in, fd) ==
    IF fd = NoName \/ ~in[fd].xattr.present \/ ByteLen(in[fd].xattr.val) > 4
    THEN [err |-> TRUE, buf |-> <<>>]
    ELSE [err |-> FALSE, buf |-> in[fd].xattr.val]

\* unix.Fgetxattr(int(f.Fd()), imageMetaXattr, buf): a nil f has descriptor -1
\* (EBADF), a file without the attribute gives ENODATA, a value longer than
\* buf gives ERANGE
Fgetxattr(in, fd) ==
    IF fd = NoName \/ ~in[fd].xattr.present \/ ByteLen(in[fd].xattr.val) > XattrBufSize
    THEN [err |-> TRUE, buf |-> <<>>]
    ELSE [err |-> FALSE, buf |-> in[fd].xattr.val]

\* mutant of SameDigest: the comparison inverted
SameDigestInverted(a, b) == a # b

\* serializedMeta.ImageDigest == imageDigest
SameDigest(a, b) == a = b

\* return path, err from getOrCreateDiskImage; the deferred f.Close() runs
Return(p, path, err) ==
    /\ ret' = [ret EXCEPT ![p] = [path |-> path, err |-> err]]
    /\ pc' = [pc EXCEPT ![p] = "ret"]
    /\ f' = [f EXCEPT ![p] = NoName]

\* mutant of Deferred: the disk cleanup removes the target instead of the
\* temporary disk
DeferredRemovesTarget(d, p, entryDeferred, cleanupDisk) ==
    LET d1 == IF entryDeferred THEN Unlink(d, temporaryEntrypoint[p]) ELSE d
    IN  IF cleanupDisk
        THEN Unlink(Unlink(d1, temporaryDisk[p]), DiskPathOf(imageName[p]))
        ELSE d1

\* createDiskImage's deferred calls, in the order they run:
\* os.Remove(temporaryEntrypoint.Name()), then, if doCleanupDisk,
\* os.Remove(temporaryDisk.Name())
Deferred(d, p, entryDeferred, cleanupDisk) ==
    LET d1 == IF entryDeferred THEN Unlink(d, temporaryEntrypoint[p]) ELSE d
    IN  IF cleanupDisk THEN Unlink(d1, temporaryDisk[p]) ELSE d1

\* ------------------------------------------------- getOrCreateDiskImage

\* getOrCreateDiskImage(ctx, name, dg) is entered
Invoke(p, name, dg) ==
    /\ imageName' = [imageName EXCEPT ![p] = name]
    /\ imageDigest' = [imageDigest EXCEPT ![p] = dg]
    /\ calls' = [calls EXCEPT ![p] = @ + 1]
    /\ builds' = [builds EXCEPT ![p] = 0]
    /\ ret' = [ret EXCEPT ![p] = [path |-> NoName, err |-> NoErr]]
    /\ pc' = [pc EXCEPT ![p] = "open"]
    /\ UNCHANGED <<dir, inodes, f, temporaryDisk, temporaryEntrypoint, doCleanupDisk>>

\* the call's frame and the descriptors it left open are gone
Leave(p) ==
    /\ pc' = [pc EXCEPT ![p] = "idle"]
    /\ imageName' = [imageName EXCEPT ![p] = <<>>]
    /\ imageDigest' = [imageDigest EXCEPT ![p] = ""]
    /\ builds' = [builds EXCEPT ![p] = 0]
    /\ ret' = [ret EXCEPT ![p] = [path |-> NoName, err |-> NoErr]]
    /\ temporaryDisk' = [temporaryDisk EXCEPT ![p] = NoName]
    /\ temporaryEntrypoint' = [temporaryEntrypoint EXCEPT ![p] = NoName]
    /\ doCleanupDisk' = [doCleanupDisk EXCEPT ![p] = FALSE]
    /\ inodes' = Collect(inodes, dir, f, temporaryDisk', temporaryEntrypoint')
    /\ UNCHANGED <<dir, f, calls>>

\* mutant of Open: every error of os.Open is returned, ErrNotExist too
OpenStrict(p) ==
    /\ pc[p] = "open"
    /\ \/ /\ DiskPath(p) \in DOMAIN dir
          /\ f' = [f EXCEPT ![p] = dir[DiskPath(p)]]
          /\ pc' = [pc EXCEPT ![p] = "getxattr"]
          /\ UNCHANGED ret
       \/ Return(p, NoName, "open")
    /\ UNCHANGED <<dir, inodes, temporaryDisk, temporaryEntrypoint,
                   doCleanupDisk, locals>>

\* f, err := os.Open(diskPath): ErrNotExist is let through with f == nil,
\* any other error is returned
Open(p) ==
    /\ pc[p] = "open"
    /\ \/ /\ DiskPath(p) \in DOMAIN dir
          /\ f' = [f EXCEPT ![p] = dir[DiskPath(p)]]
          /\ pc' = [pc EXCEPT ![p] = "getxattr"]
          /\ UNCHANGED ret
       \/ /\ DiskPath(p) \notin DOMAIN dir
          /\ f' = [f EXCEPT ![p] = NoName]
          /\ pc' = [pc EXCEPT ![p] = "getxattr"]
          /\ UNCHANGED ret
       \/ /\ DiskPath(p) \in DOMAIN dir
          /\ Return(p, NoName, "open")
    /\ UNCHANGED <<dir, inodes, temporaryDisk, temporaryEntrypoint,
                   doCleanupDisk, locals>>

\* mutant of GetXattr: a metadata record that does not parse is returned as
\* an error
GetXattrStrict(p) ==
    /\ pc[p] = "getxattr"
    /\ LET r == Fgetxattr(inodes, f[p])
           m == Unmarshal(r.buf)
       IN  \/ /\ r.err
              /\ pc' = [pc EXCEPT ![p] = "remove"]
              /\ UNCHANGED <<ret, f, inodes>>
           \/ /\ ~r.err /\ ~m.ok
              /\ Return(p, NoName, "unmarshal")
              /\ inodes' = Collect(inodes, dir, f', temporaryDisk, temporaryEntrypoint)
           \/ /\ ~r.err /\ m.ok /\ SameDigest(m.ImageDigest, imageDigest[p])
              /\ Return(p, DiskPath(p), NoErr)
              /\ inodes' = Collect(inodes, dir, f', temporaryDisk, temporaryEntrypoint)
           \/ /\ ~r.err /\ m.ok /\ ~SameDigest(m.ImageDigest, imageDigest[p])
              /\ pc' = [pc EXCEPT ![p] = "createtemp"]
              /\ UNCHANGED <<ret, f, inodes>>
    /\ UNCHANGED <<dir, temporaryDisk, temporaryEntrypoint, doCleanupDisk, locals>>

\* len, err := unix.Fgetxattr(...), json.Unmarshal and the digest comparison
GetXattr(p) ==
    /\ pc[p] = "getxattr"
    /\ LET r == Fgetxattr(inodes, f[p])
           m == Unmarshal(r.buf)
       IN  \/ /\ r.err
              /\ pc' = [pc EXCEPT ![p] = "remove"]
              /\ UNCHANGED <<ret, f, inodes>>
           \/ /\ ~r.err /\ ~m.ok
              /\ pc' = [pc EXCEPT ![p] = "createtemp"]
              /\ UNCHANGED <<ret, f, inodes>>
           \/ /\ ~r.err /\ m.ok /\ SameDigest(m.ImageDigest, imageDigest[p])
              /\ Return(p, DiskPath(p), NoErr)
              /\ inodes' = Collect(inodes, dir, f', temporaryDisk, temporaryEntrypoint)
           \/ /\ ~r.err /\ m.ok /\ ~SameDigest(m.ImageDigest, imageDigest[p])
              /\ pc' = [pc EXCEPT ![p] = "createtemp"]
              /\ UNCHANGED <<ret, f, inodes>>
    /\ UNCHANGED <<dir, temporaryDisk, temporaryEntrypoint, doCleanupDisk, locals>>

\* "If there's no xattr, just remove it": os.Remove(diskPath)
RemoveStale(p) ==
    /\ pc[p] = "remove"
    /\ dir' = Unlink(dir, DiskPath(p))
    /\ pc' = [pc EXCEPT ![p] = "createtemp"]
    /\ inodes' = Collect(inodes, dir', f, temporaryDisk, temporaryEntrypoint)
    /\ UNCHANGED <<ret, f, temporaryDisk, temporaryEntrypoint, doCleanupDisk, locals>>

\* ------------------------------------------------------ createDiskImage

\* temporaryDisk, err := os.CreateTemp(ctx.cachedir, "podman-bootc-tempdisk")
CreateTempDisk(p) ==
    /\ pc[p] = "createtemp"
    /\ \/ LET t == TempName("podman-bootc-tempdisk", p, calls[p])
          IN  /\ temporaryDisk' = [temporaryDisk EXCEPT ![p] = t]
              /\ dir' = (t :> t) @@ dir
              /\ inodes' = (t :> File("empty", NoXattr, FALSE)) @@ inodes
              /\ pc' = [pc EXCEPT ![p] = "ftruncate"]
              /\ UNCHANGED <<ret, f>>
       \/ /\ Return(p, NoName, "createtemp")
          /\ inodes' = Collect(inodes, dir, f', temporaryDisk, temporaryEntrypoint)
          /\ UNCHANGED <<dir, temporaryDisk>>
    /\ UNCHANGED <<temporaryEntrypoint, doCleanupDisk, locals>>

\* syscall.Ftruncate(fd, diskSize); on failure the function returns before
\* the cleanup of the temporary disk is deferred
Ftruncate(p) ==
    /\ pc[p] = "ftruncate"
    /\ \/ /\ inodes' = [inodes EXCEPT ![temporaryDisk[p]].data = "sparse"]
          /\ doCleanupDisk' = [doCleanupDisk EXCEPT ![p] = TRUE]
          /\ pc' = [pc EXCEPT ![p] = "createentry"]
          /\ UNCHANGED <<ret, f>>
       \/ /\ Return(p, NoName, "ftruncate")
          /\ inodes' = Collect(inodes, dir, f', temporaryDisk, temporaryEntrypoint)
          /\ UNCHANGED doCleanupDisk
    /\ UNCHANGED <<dir, temporaryDisk, temporaryEntrypoint, locals>>

\* temporaryEntrypoint, err := os.CreateTemp(ctx.cachedir, "entrypoint")
CreateTempEntrypoint(p) ==
    /\ pc[p] = "createentry"
    /\ \/ LET t == TempName("entrypoint", p, calls[p])
          IN  /\ temporaryEntrypoint' = [temporaryEntrypoint EXCEPT ![p] = t]
              /\ dir' = (t :> t) @@ dir
              /\ inodes' = (t :> File("empty", NoXattr, FALSE)) @@ inodes
              /\ pc' = [pc EXCEPT ![p] = "copy"]
              /\ UNCHANGED <<ret, f>>
       \/ /\ Return(p, NoName, "createentry")
          /\ dir' = Deferred(dir, p, FALSE, doCleanupDisk[p])
          /\ inodes' = Collect(inodes, dir', f', temporaryDisk, temporaryEntrypoint)
          /\ UNCHANGED temporaryEntrypoint
    /\ UNCHANGED <<temporaryDisk, doCleanupDisk, locals>>

\* io.Copy(temporaryEntrypoint, strings.NewReader(loopWrapperEntrypoint))
CopyEntrypoint(p) ==
    /\ pc[p] = "copy"
    /\ \/ /\ inodes' = [inodes EXCEPT ![temporaryEntrypoint[p]].data = "script"]
          /\ pc' = [pc EXCEPT ![p] = "chmod"]
          /\ UNCHANGED <<ret, f, dir>>
       \/ /\ Return(p, NoName, "copy")
          /\ dir' = Deferred(dir, p, TRUE, doCleanupDisk[p])
          /\ inodes' = Collect(inodes, dir', f', temporaryDisk, temporaryEntrypoint)
    /\ UNCHANGED <<temporaryDisk, temporaryEntrypoint, doCleanupDisk, locals>>

\* temporaryEntrypoint.Chmod(0o755)
Chmod(p) ==
    /\ pc[p] = "chmod"
    /\ \/ /\ inodes' = [inodes EXCEPT ![temporaryEntrypoint[p]].exec = TRUE]
          /\ pc' = [pc EXCEPT ![p] = "run"]
          /\ UNCHANGED <<ret, f, dir>>
       \/ /\ Return(p, NoName, "chmod")
          /\ dir' = Deferred(dir, p, TRUE, doCleanupDisk[p])
          /\ inodes' = Collect(inodes, dir', f', temporaryDisk, temporaryEntrypoint)
    /\ UNCHANGED <<temporaryDisk, temporaryEntrypoint, doCleanupDisk, locals>>

\* podmanRecurseRun(ctx.cmd, genDiskArgs) starts the build container, which
\* writes the installation into the bind-mounted temporary disk
RunBuild(p) ==
    /\ pc[p] = "run"
    /\ builds' = [builds EXCEPT ![p] = @ + 1]
    /\ inodes' = [inodes EXCEPT ![temporaryDisk[p]].data = "partial"]
    /\ pc' = [pc EXCEPT ![p] = "wait"]
    /\ UNCHANGED <<dir, ret, f, temporaryDisk, temporaryEntrypoint, doCleanupDisk,
                   imageName, imageDigest, calls, snap, prev, vmvars>>

\* c.Run() returns: nil when the container exited 0 (the disk is complete),
\* an error otherwise
WaitBuild(p) ==
    /\ pc[p] = "wait"
    /\ \/ /\ inodes' = [inodes EXCEPT ![temporaryDisk[p]].data = "complete"]
          /\ pc' = [pc EXCEPT ![p] = "setxattr"]
          /\ UNCHANGED <<ret, f, dir>>
       \/ /\ Return(p, NoName, "build")
          /\ dir' = Deferred(dir, p, TRUE, doCleanupDisk[p])
          /\ inodes' = Collect(inodes, dir', f', temporaryDisk, temporaryEntrypoint)
    /\ UNCHANGED <<temporaryDisk, temporaryEntrypoint, doCleanupDisk, locals>>

\* mutant of SetXattr: the metadata is not written before the rename
SetXattrForgotten(p) ==
    /\ pc[p] = "setxattr"
    /\ doCleanupDisk' = [doCleanupDisk EXCEPT ![p] = FALSE]
    /\ pc' = [pc EXCEPT ![p] = "rename"]
    /\ UNCHANGED <<ret, f, dir, inodes, temporaryDisk, temporaryEntrypoint, locals>>

\* doCleanupDisk = false; buf := json.Marshal(serializedMeta);
\* unix.Fsetxattr(int(temporaryDisk.Fd()), imageMetaXattr, buf, 0)
SetXattr(p) ==
    /\ pc[p] = "setxattr"
    /\ doCleanupDisk' = [doCleanupDisk EXCEPT ![p] = FALSE]
    /\ \/ /\ inodes' = [inodes EXCEPT ![temporaryDisk[p]].xattr =
                            Xattr(Marshal([ImageDigest |-> imageDigest[p]]))]
          /\ pc' = [pc EXCEPT ![p] = "rename"]
          /\ UNCHANGED <<ret, f, dir>>
       \/ /\ Return(p, NoName, "setxattr")
          /\ dir' = Deferred(dir, p, TRUE, doCleanupDisk'[p])
          /\ inodes' = Collect(inodes, dir', f', temporaryDisk, temporaryEntrypoint)
    /\ UNCHANGED <<temporaryDisk, temporaryEntrypoint, locals>>

\* mutant of Rename: an existing target is kept instead of replaced
RenameKeepsTarget(p) ==
    /\ pc[p] = "rename"
    /\ \/ /\ Return(p, DiskPath(p), NoErr)
          /\ dir' = Deferred(IF DiskPath(p) \in DOMAIN dir
                             THEN Unlink(dir, temporaryDisk[p])
                             ELSE RenameIn(dir, temporaryDisk[p], DiskPath(p)),
                             p, TRUE, doCleanupDisk[p])
       \/ /\ Return(p, NoName, "rename")
          /\ dir' = Deferred(dir, p, TRUE, doCleanupDisk[p])
    /\ inodes' = Collect(inodes, dir', f', temporaryDisk, temporaryEntrypoint)
    /\ UNCHANGED <<temporaryDisk, temporaryEntrypoint, doCleanupDisk, locals>>

\* os.Rename(temporaryDisk.Name(), targetDisk); return targetDisk, nil
Rename(p) ==
    /\ pc[p] = "rename"
    /\ \/ /\ Return(p, DiskPath(p), NoErr)
          /\ dir' = Deferred(RenameIn(dir, temporaryDisk[p], DiskPath(p)), p,
                             TRUE, doCleanupDisk[p])
       \/ /\ Return(p, NoName, "rename")
          /\ dir' = Deferred(dir, p, TRUE, doCleanupDisk[p])
    /\ inodes' = Collect(inodes, dir', f', temporaryDisk, temporaryEntrypoint)
    /\ UNCHANGED <<temporaryDisk, temporaryEntrypoint, doCleanupDisk, locals>>

\* the function's own steps, one per system call
CodeStep(p) ==
    \/ Open(p)
    \/ GetXattr(p)
    \/ RemoveStale(p)
    \/ CreateTempDisk(p)
    \/ Ftruncate(p)
    \/ CreateTempEntrypoint(p)
    \/ CopyEntrypoint(p)
    \/ Chmod(p)
    \/ RunBuild(p)
    \/ WaitBuild(p)
    \/ SetXattr(p)
    \/ Rename(p)

\* ------------------------------------------------------------- callers

\* a racing caller calls for the contended image, with any digest
Call(p) ==
    /\ pc[p] = "idle"
    /\ calls[p] < MaxRacingCalls
    /\ \E dg \in Digests : Invoke(p, RacedImage, dg)
    /\ UNCHANGED <<snap, prev, vmvars>>

\* a racing caller takes the result
Finish(p) ==
    /\ pc[p] = "ret"
    /\ Leave(p)
    /\ UNCHANGED <<snap, prev, vmvars>>

\* the sequential caller calls; the cache as the call finds it is recorded
SeqCall(p) ==
    /\ pc[p] = "idle"
    /\ calls[p] < MaxCalls
    /\ \E name \in ImageNames, dg \in Digests : Invoke(p, name, dg)
    /\ snap' = [dir |-> dir, inodes |-> inodes]
    /\ UNCHANGED <<prev, vmvars>>

\* the sequential caller takes the result, which is recorded
SeqFinish(p) ==
    /\ pc[p] = "ret"
    /\ Leave(p)
    /\ prev' = [valid |-> TRUE, imageName |-> imageName[p],
                imageDigest |-> imageDigest[p], path |-> ret[p].path,
                err |-> ret[p].err, builds |-> builds[p]]
    /\ UNCHANGED <<snap, vmvars>>

\* ---------------------------------------------------- SpawnTransient

\* getBasicDevices(): the entropy device
getBasicDevices == <<[dev |-> "rng", arg |-> NoName]>>

\* getDebugDevices(): graphics, pointer, keyboard
getDebugDevices ==
    <<[dev |-> "gpu", arg |-> NoName],
      [dev |-> "input-pointing", arg |-> NoName],
      [dev |-> "input-keyboard", arg |-> NoName]>>

\* mutant of TransientDevices: the console is added with Gui too
TransientDevicesAlwaysConsole(opts) ==
    LET devices == Append(getBasicDevices, [dev |-> "blk", arg |-> opts.Disk])
    IN  Append(IF opts.Gui THEN devices \o getDebugDevices ELSE devices,
               [dev |-> "serial-stdio", arg |-> NoName])

\* vmconfig.Devices as SpawnTransient builds it: the basic devices, the disk,
\* then the debug devices with Gui or the stdio console without
TransientDevices(opts) ==
    LET devices == Append(getBasicDevices, [dev |-> "blk", arg |-> opts.Disk])
    IN  IF opts.Gui
        THEN devices \o getDebugDevices
        ELSE Append(devices, [dev |-> "serial-stdio", arg |-> NoName])

\* mutant of TransientArgs: the REST endpoint is disabled only without Gui
\* and verbose logging follows Gui
TransientArgsByGui(opts) ==
    [devices |-> TransientDevices(opts),
     flags |-> (IF opts.Gui THEN <<"--gui", "--log-level", "debug">>
                ELSE <<"--restful-uri=none://">>)]

\* cmd.Args: vmconfig.Cmd(vfkitPath) gives the devices in list order; then
\* --restful-uri=none://, --gui with Gui, --log-level debug with VMDebug
TransientArgs(opts) ==
    [devices |-> TransientDevices(opts),
     flags |-> <<"--restful-uri=none://">>
               \o (IF opts.Gui THEN <<"--gui">> ELSE <<>>)
               \o (IF opts.VMDebug THEN <<"--log-level", "debug">> ELSE <<>>)]

NoOpts == [Cpus |-> 0, MemoryMiB |-> 0, Disk |-> NoName, Gui |-> FALSE, VMDebug |-> FALSE]
NoArgs == [devices |-> <<>>, flags |-> <<>>]

\* the names and states of persisted machines
MachineNames == {"m1", "m2"}
MachineStates == {"stopped", "starting", "running"}

\* the lists of persisted machine records
MachineLists ==
    UNION {[1..n -> [Name : MachineNames, State : MachineStates]] : n \in 0..MaxMachines}

NoActive == [done |-> FALSE, active |-> FALSE, name |-> "", err |-> NoErr]

\* the host's loop devices, lowest first
LoopDevs == <<"/dev/loop0", "/dev/loop1">>
NoLoop == ""

\* the parameters the entrypoint may be started with; createDiskImage gives
\* it the disk alone
EpArgLists == {<<>>, <<"/disk">>, <<"/disk", "/target">>}

NoInstall == [ran |-> FALSE, target |-> "", status |-> 0]

\* ------------------------------------------------------------------ vmrun

\* the process that runs vmrun
Runner == 1

\* the output of image inspect -f {{.Digest}}: the digest and a newline
InspectOutput(d) == <<d, "\n">>

IsSpace(t) == t \in {" ", "\n", "\t"}

RECURSIVE TrimLeft(_)
TrimLeft(s) == IF s # <<>> /\ IsSpace(Head(s)) THEN TrimLeft(Tail(s)) ELSE s

RECURSIVE TrimRight(_)
TrimRight(s) ==
    IF s # <<>> /\ IsSpace(s[Len(s)]) THEN TrimRight(SubSeq(s, 1, Len(s) - 1)) ELSE s

\* strings.TrimSpace(buf.String()), as the string it leaves
TrimSpace(s) == LET t == TrimRight(TrimLeft(s)) IN IF t = <<>> THEN "" ELSE t[1]

\* vmrun returns err; the deferred os.Remove(tempf.Name()) runs if registered
VmReturn(err, tempDeferred) ==
    /\ vmErr' = err
    /\ pc' = [pc EXCEPT ![Runner] = "vm:done"]
    /\ dir' = IF tempDeferred THEN Unlink(dir, tempf) ELSE dir
    /\ inodes' = Collect(inodes, dir', f, temporaryDisk, temporaryEntrypoint)

getvars == <<imageDigest, f, temporaryDisk, temporaryEntrypoint, doCleanupDisk,
             ret, builds, calls, snap, prev>>

\* vmrun IMAGE is started; PersistentPreRunE, GetGlobalDataDir and MkdirAll
\* each return their error
VmrunStart ==
    /\ pc[Runner] = "idle"
    /\ runs < MaxRuns
    /\ runs' = runs + 1
    /\ events' = <<>>
    /\ \E name \in ImageNames, dbg \in BOOLEAN :
          /\ imageName' = [imageName EXCEPT ![Runner] = name]
          /\ vmDebug' = dbg
    /\ \E e \in {NoErr, "prerun", "datadir", "mkdir"} :
          /\ vmErr' = e
          /\ pc' = [pc EXCEPT ![Runner] = IF e = NoErr THEN "vm:inspect" ELSE "vm:done"]
    /\ UNCHANGED <<dir, inodes, getvars, imageStore, digest, disk, tempf, spawnopts,
                   cmdArgs, hvExit>>
    /\ UNCHANGED <<spawnErr, hostvars>>

\* mutant of VmrunInspect: the image is pulled whether it is present or not
VmrunInspectAlwaysPulls ==
    /\ pc[Runner] = "vm:inspect"
    /\ \/ /\ imageStore[imageName[Runner]] # ""
          /\ events' = Append(events, "inspect-ok")
       \/ events' = Append(events, "inspect-failed")
    /\ pc' = [pc EXCEPT ![Runner] = "vm:pull"]
    /\ UNCHANGED <<dir, inodes, imageName, getvars, imageStore, vmDebug, digest, disk,
                   tempf, spawnopts, cmdArgs, hvExit, vmErr, runs, spawnErr, hostvars>>

\* image inspect to see if the image is present, otherwise pull
VmrunInspect ==
    /\ pc[Runner] = "vm:inspect"
    /\ \/ /\ imageStore[imageName[Runner]] # ""
          /\ events' = Append(events, "inspect-ok")
          /\ pc' = [pc EXCEPT ![Runner] = "vm:digest"]
       \/ /\ events' = Append(events, "inspect-failed")
          /\ pc' = [pc EXCEPT ![Runner] = "vm:pull"]
    /\ UNCHANGED <<dir, inodes, imageName, getvars, imageStore, vmDebug, digest, disk,
                   tempf, spawnopts, cmdArgs, hvExit, vmErr, runs>>
    /\ UNCHANGED <<spawnErr, hostvars>>

\* podmanRecurseRun(cmd, {"pull", imageName})
VmrunPull ==
    /\ pc[Runner] = "vm:pull"
    /\ \/ \E d \in Digests :
            /\ imageStore' = [imageStore EXCEPT ![imageName[Runner]] = d]
            /\ events' = Append(events, "pull")
            /\ pc' = [pc EXCEPT ![Runner] = "vm:digest"]
            /\ UNCHANGED vmErr
       \/ /\ vmErr' = "pull"
          /\ events' = Append(events, "pull-failed")
          /\ pc' = [pc EXCEPT ![Runner] = "vm:done"]
          /\ UNCHANGED imageStore
    /\ UNCHANGED <<dir, inodes, imageName, getvars, vmDebug, digest, disk, tempf,
                   spawnopts, cmdArgs, hvExit, runs>>
    /\ UNCHANGED <<spawnErr, hostvars>>

\* mutant of VmrunDigest: a failed inspection is let through
VmrunDigestUnchecked ==
    /\ pc[Runner] = "vm:digest"
    /\ \/ /\ imageStore[imageName[Runner]] # ""
          /\ digest' = TrimSpace(InspectOutput(imageStore[imageName[Runner]]))
          /\ events' = Append(events, "digest")
       \/ /\ digest' = ""
          /\ events' = Append(events, "digest-failed")
    /\ pc' = [pc EXCEPT ![Runner] = "vm:getdisk"]
    /\ UNCHANGED <<dir, inodes, imageName, getvars, imageStore, vmDebug, disk, tempf,
                   spawnopts, cmdArgs, hvExit, vmErr, runs, spawnErr, hostvars>>

\* the second image inspect, whose output is the digest
VmrunDigest ==
    /\ pc[Runner] = "vm:digest"
    /\ \/ /\ imageStore[imageName[Runner]] # ""
          /\ digest' = TrimSpace(InspectOutput(imageStore[imageName[Runner]]))
          /\ events' = Append(events, "digest")
          /\ pc' = [pc EXCEPT ![Runner] = "vm:getdisk"]
          /\ UNCHANGED vmErr
       \/ /\ vmErr' = "inspect"
          /\ events' = Append(events, "digest-failed")
          /\ pc' = [pc EXCEPT ![Runner] = "vm:done"]
          /\ UNCHANGED digest
    /\ UNCHANGED <<dir, inodes, imageName, getvars, imageStore, vmDebug, disk, tempf,
                   spawnopts, cmdArgs, hvExit, runs>>
    /\ UNCHANGED <<spawnErr, hostvars>>

\* disk, err := getOrCreateDiskImage(&ctx, imageName, digest)
VmrunGetDisk ==
    /\ pc[Runner] = "vm:getdisk"
    /\ events' = Append(events, "getdisk")
    /\ Invoke(Runner, imageName[Runner], digest)
    /\ UNCHANGED <<snap, prev, imageStore, vmDebug, digest, disk, tempf, spawnopts,
                   cmdArgs, hvExit, vmErr, runs>>
    /\ UNCHANGED <<spawnErr, hostvars>>

\* if err != nil { return err }; fmt.Printf("generated %s\n", disk)
VmrunGotDisk ==
    /\ pc[Runner] = "ret"
    /\ \/ /\ ret[Runner].err # NoErr
          /\ vmErr' = ret[Runner].err
          /\ pc' = [pc EXCEPT ![Runner] = "vm:done"]
          /\ UNCHANGED <<disk, events>>
       \/ /\ ret[Runner].err = NoErr
          /\ disk' = ret[Runner].path
          /\ events' = Append(events, "print")
          /\ pc' = [pc EXCEPT ![Runner] = "vm:createtemp"]
          /\ UNCHANGED vmErr
    /\ UNCHANGED <<dir, inodes, imageName, getvars, imageStore, vmDebug, digest, tempf,
                   spawnopts, cmdArgs, hvExit, runs>>
    /\ UNCHANGED <<spawnErr, hostvars>>

\* tempf, err := os.CreateTemp(diskdir, "bootc-vmrun"); defer os.Remove; Close
VmrunCreateTemp ==
    /\ pc[Runner] = "vm:createtemp"
    /\ \/ LET t == TempName("bootc-vmrun", Runner, runs)
          IN  /\ tempf' = t
              /\ dir' = (t :> t) @@ dir
              /\ inodes' = (t :> File("empty", NoXattr, FALSE)) @@ inodes
              /\ pc' = [pc EXCEPT ![Runner] = "vm:cp"]
              /\ UNCHANGED vmErr
       \/ /\ VmReturn("createtemp", FALSE)
          /\ UNCHANGED tempf
    /\ UNCHANGED <<imageName, getvars, imageStore, vmDebug, digest, disk, spawnopts,
                   cmdArgs, hvExit, events, runs>>
    /\ UNCHANGED <<spawnErr, hostvars>>

\* exec.Command("cp", "-fc", disk, tempf.Name()).Run(): the private copy
VmrunClone ==
    /\ pc[Runner] = "vm:cp"
    /\ events' = Append(events, "clone")
    /\ \/ /\ disk \in DOMAIN dir
          /\ inodes' = [inodes EXCEPT ![dir[tempf]] = inodes[dir[disk]]]
          /\ pc' = [pc EXCEPT ![Runner] = "vm:provider"]
          /\ UNCHANGED <<dir, vmErr>>
       \/ VmReturn("cp", TRUE)
    /\ UNCHANGED <<imageName, getvars, imageStore, vmDebug, digest, disk, tempf,
                   spawnopts, cmdArgs, hvExit, runs>>
    /\ UNCHANGED <<spawnErr, hostvars>>

\* vmprovider, err := machinevirtprovider.Get(); the options SpawnTransient
\* is called with
VmrunProvider ==
    /\ pc[Runner] = "vm:provider"
    /\ events' = Append(events, "provider")
    /\ \/ /\ spawnopts' = [Cpus |-> 2, MemoryMiB |-> 2048, Disk |-> disk,
                           Gui |-> TRUE, VMDebug |-> vmDebug]
          /\ pc' = [pc EXCEPT ![Runner] = "st:setup"]
          /\ UNCHANGED <<dir, inodes, vmErr>>
       \/ /\ VmReturn("provider", TRUE)
          /\ UNCHANGED spawnopts
    /\ UNCHANGED <<imageName, getvars, imageStore, vmDebug, digest, disk, tempf,
                   cmdArgs, hvExit, runs>>
    /\ UNCHANGED <<spawnErr, hostvars>>

\* the errors SpawnTransient returns before the hypervisor is started:
\* config.Default, MkdirTemp, MkdirAll, FindHelperBinary, the device
\* constructors and vmconfig.Cmd
SpawnSetupErrs == {"config", "mkdirtemp", "mkdirall", "findhelper", "device", "cmd"}

\* mutant of SpawnSetup: a transient VM is refused while a persistent
\* machine is active
SpawnSetupExclusive ==
    /\ pc[Runner] = "st:setup"
    /\ events' = Append(events, "SpawnTransient")
    /\ \/ /\ \A i \in 1..Len(machines) : machines[i].State = "stopped"
          /\ cmdArgs' = TransientArgs(spawnopts)
          /\ pc' = [pc EXCEPT ![Runner] = "st:run"]
          /\ UNCHANGED spawnErr
       \/ /\ \E e \in SpawnSetupErrs \cup {"exclusive"} : spawnErr' = e
          /\ pc' = [pc EXCEPT ![Runner] = "st:ret"]
          /\ UNCHANGED cmdArgs
    /\ UNCHANGED <<dir, inodes, imageName, getvars, imageStore, vmDebug, digest, disk,
                   tempf, spawnopts, hvExit, vmErr, runs, hostvars>>

\* SpawnTransient(opts) up to cmd.Args; each step before it returns its error
SpawnSetup ==
    /\ pc[Runner] = "st:setup"
    /\ events' = Append(events, "SpawnTransient")
    /\ \/ /\ cmdArgs' = TransientArgs(spawnopts)
          /\ pc' = [pc EXCEPT ![Runner] = "st:run"]
          /\ UNCHANGED spawnErr
       \/ /\ \E e \in SpawnSetupErrs : spawnErr' = e
          /\ pc' = [pc EXCEPT ![Runner] = "st:ret"]
          /\ UNCHANGED cmdArgs
    /\ UNCHANGED <<dir, inodes, imageName, getvars, imageStore, vmDebug, digest, disk,
                   tempf, spawnopts, hvExit, vmErr, runs, hostvars>>

\* cmd.Run() starts the hypervisor with the devices of cmd.Args
SpawnRun ==
    /\ pc[Runner] = "st:run"
    /\ events' = Append(events, "spawn")
    /\ pc' = [pc EXCEPT ![Runner] = "st:wait"]
    /\ UNCHANGED <<dir, inodes, imageName, getvars, imageStore, vmDebug, digest, disk,
                   tempf, spawnopts, cmdArgs, hvExit, vmErr, runs, spawnErr, hostvars>>

\* the path of the block device the hypervisor was given
HvDisk == cmdArgs.devices[2].arg

\* mutant of SpawnWait: the hypervisor's failure is returned
SpawnWaitEscalates ==
    /\ pc[Runner] = "st:wait"
    /\ \E status \in {0, 1} :
          /\ hvExit' = status
          /\ spawnErr' = IF status = 0 THEN NoErr ELSE "vfkit"
    /\ pc' = [pc EXCEPT ![Runner] = "st:ret"]
    /\ UNCHANGED <<dir, inodes, imageName, getvars, imageStore, vmDebug, digest, disk,
                   tempf, spawnopts, cmdArgs, vmErr, events, runs, hostvars>>

\* cmd.Run() returns when the hypervisor has exited: the guest ran on the
\* block device, which it may have written, and the hypervisor exited with
\* some status; a failure is logged and SpawnTransient returns nil
SpawnWait ==
    /\ pc[Runner] = "st:wait"
    /\ \E status \in {0, 1}, wrote \in BOOLEAN :
          /\ hvExit' = status
          /\ inodes' = IF wrote /\ HvDisk \in DOMAIN dir
                       THEN [inodes EXCEPT ![dir[HvDisk]].data = "guestwritten"]
                       ELSE inodes
    /\ spawnErr' = NoErr
    /\ pc' = [pc EXCEPT ![Runner] = "st:ret"]
    /\ UNCHANGED <<dir, imageName, getvars, imageStore, vmDebug, digest, disk, tempf,
                   spawnopts, cmdArgs, vmErr, events, runs, hostvars>>

\* return vmprovider.SpawnTransient(spawnopts)
VmrunSpawned ==
    /\ pc[Runner] = "st:ret"
    /\ VmReturn(spawnErr, TRUE)
    /\ UNCHANGED <<imageName, getvars, imageStore, vmDebug, digest, disk, tempf,
                   spawnopts, cmdArgs, hvExit, events, runs, spawnErr, hostvars>>

\* the vmrun process exits
VmrunExit ==
    /\ pc[Runner] = "vm:done"
    /\ Leave(Runner)
    /\ digest' = ""
    /\ disk' = NoName
    /\ tempf' = NoName
    /\ spawnopts' = NoOpts
    /\ cmdArgs' = NoArgs
    /\ hvExit' = -1
    /\ vmErr' = NoErr
    /\ UNCHANGED <<snap, prev, imageStore, vmDebug, events, runs>>
    /\ spawnErr' = NoErr
    /\ UNCHANGED hostvars

VmrunStep ==
    \/ VmrunStart
    \/ VmrunInspect
    \/ VmrunPull
    \/ VmrunDigest
    \/ VmrunGetDisk
    \/ VmrunGotDisk
    \/ VmrunCreateTemp
    \/ VmrunClone
    \/ VmrunProvider
    \/ SpawnSetup
    \/ SpawnRun
    \/ SpawnWait
    \/ VmrunSpawned
    \/ VmrunExit

\* ------------------------------------------------ the machine provider

\* the provider's operations are called one at a time
ProviderIdle == pc[Runner] = "idle" /\ lsPc = "idle" /\ ~activeVM.done

\* SpawnTransient is called with any options
SpawnCall ==
    /\ ProviderIdle
    /\ \E d \in CachePaths, gui \in BOOLEAN, dbg \in BOOLEAN :
          spawnopts' = [Cpus |-> 2, MemoryMiB |-> 2048, Disk |-> d,
                        Gui |-> gui, VMDebug |-> dbg]
    /\ events' = <<>>
    /\ pc' = [pc EXCEPT ![Runner] = "st:setup"]
    /\ UNCHANGED <<dir, inodes, imageName, getvars, imageStore, vmDebug, digest, disk,
                   tempf, cmdArgs, hvExit, vmErr, runs, spawnErr, hostvars>>

\* the caller takes SpawnTransient's result
SpawnReturn ==
    /\ pc[Runner] = "st:ret"
    /\ pc' = [pc EXCEPT ![Runner] = "idle"]
    /\ spawnopts' = NoOpts
    /\ cmdArgs' = NoArgs
    /\ hvExit' = -1
    /\ spawnErr' = NoErr
    /\ UNCHANGED <<dir, inodes, imageName, getvars, imageStore, vmDebug, digest, disk,
                   tempf, vmErr, events, runs, hostvars>>

\* getVMInfos(): one entry for each persisted record, in directory order
getVMInfos(ms) ==
    [i \in 1..Len(ms) |-> [Name |-> ms[i].Name,
                           Running |-> ms[i].State = "running",
                           Starting |-> ms[i].State = "starting"]]

\* mutant of ScanActive: a starting machine is not seen
ScanRunningOnly(fsVms, i) ==
    LET hits == {j \in i..Len(fsVms) : fsVms[j].Running}
    IN  IF hits = {}
        THEN [done |-> TRUE, active |-> FALSE, name |-> "", err |-> NoErr]
        ELSE [done |-> TRUE, active |-> TRUE,
              name |-> fsVms[CHOOSE j \in hits : \A k \in hits : j <= k].Name,
              err |-> NoErr]

\* for _, vm := range fsVms { if vm.Running || vm.Starting { return true,
\* vm.Name, nil } }; return false, "", nil: the loop from entry i on
RECURSIVE ScanActive(_, _)
ScanActive(fsVms, i) ==
    IF i > Len(fsVms)
    THEN [done |-> TRUE, active |-> FALSE, name |-> "", err |-> NoErr]
    ELSE IF fsVms[i].Running \/ fsVms[i].Starting
         THEN [done |-> TRUE, active |-> TRUE, name |-> fsVms[i].Name, err |-> NoErr]
         ELSE ScanActive(fsVms, i + 1)

\* CheckExclusiveActiveVM(): the error of getVMInfos is returned
CheckExclusiveActiveVM ==
    /\ ProviderIdle
    /\ \/ activeVM' = ScanActive(getVMInfos(machines), 1)
       \/ activeVM' = [done |-> TRUE, active |-> FALSE, name |-> "", err |-> "getvminfos"]
    /\ UNCHANGED <<dir, inodes, pc, imageName, getvars, imageStore, vmDebug, digest,
                   disk, tempf, spawnopts, cmdArgs, hvExit, vmErr, events, runs,
                   spawnErr, machines, lsPc, mms, response, lsErr, probes, epvars>>

\* the caller takes CheckExclusiveActiveVM's result
CheckReturn ==
    /\ activeVM.done
    /\ activeVM' = NoActive
    /\ UNCHANGED <<dir, inodes, pc, imageName, getvars, imageStore, vmDebug, digest,
                   disk, tempf, spawnopts, cmdArgs, hvExit, vmErr, events, runs,
                   spawnErr, machines, lsPc, mms, response, lsErr, probes, epvars>>

listframe == <<dir, inodes, pc, imageName, getvars, imageStore, vmDebug, digest, disk,
               tempf, spawnopts, cmdArgs, hvExit, vmErr, events, runs, spawnErr,
               machines, activeVM, epvars>>

\* List: mms, err := v.loadFromLocalJson(); if err != nil { return nil, err }
ListStart ==
    /\ ProviderIdle
    /\ probes' = <<>>
    /\ response' = <<>>
    /\ \/ /\ mms' = machines
          /\ lsPc' = "probe"
          /\ UNCHANGED lsErr
       \/ /\ lsErr' = "load"
          /\ lsPc' = "done"
          /\ UNCHANGED mms
    /\ UNCHANGED listframe

\* mutant of StateOf: a refused connection is taken for a failure
StateOfStrict(out) == [vmState |-> out, err |-> out \in {"ECONNREFUSED", "EIO"}]

\* vmState, err := mm.Vfkit.State(); ECONNREFUSED stands for define.Stopped,
\* any other error is returned
StateOf(out) ==
    IF out = "ECONNREFUSED" THEN [vmState |-> "stopped", err |-> FALSE]
    ELSE IF out = "EIO" THEN [vmState |-> "", err |-> TRUE]
    ELSE [vmState |-> out, err |-> FALSE]

\* one pass of for _, mm := range mms: the probe answers with the machine's
\* state or fails, refused or otherwise; return nil, err, or the entry is
\* appended to response
ListProbe ==
    /\ lsPc = "probe"
    /\ Len(probes) < Len(mms)
    /\ LET mm == mms[Len(probes) + 1]
       IN  \E out \in {mm.State, "ECONNREFUSED", "EIO"} :
             /\ probes' = Append(probes, out)
             /\ \/ /\ StateOf(out).err
                   /\ response' = <<>>
                   /\ lsErr' = out
                   /\ lsPc' = "done"
                \/ /\ ~StateOf(out).err
                   /\ response' = Append(response,
                          [Name |-> mm.Name,
                           Running |-> StateOf(out).vmState = "running",
                           Starting |-> StateOf(out).vmState = "starting"])
                   /\ UNCHANGED <<lsErr, lsPc>>
    /\ UNCHANGED <<mms, listframe>>

\* return response, nil
ListEnd ==
    /\ lsPc = "probe"
    /\ Len(probes) = Len(mms)
    /\ lsPc' = "done"
    /\ UNCHANGED <<mms, response, lsErr, probes, listframe>>

\* the caller takes List's result
ListReturn ==
    /\ lsPc = "done"
    /\ lsPc' = "idle"
    /\ mms' = <<>>
    /\ response' = <<>>
    /\ lsErr' = NoErr
    /\ probes' = <<>>
    /\ UNCHANGED listframe

ProviderStep ==
    \/ SpawnCall
    \/ SpawnSetup
    \/ SpawnRun
    \/ SpawnWait
    \/ SpawnReturn
    \/ CheckExclusiveActiveVM
    \/ CheckReturn
    \/ ListStart
    \/ ListProbe
    \/ ListEnd
    \/ ListReturn

\* ----------------------------------------------- loopWrapperEntrypoint

\* the shell leaves with status code
EpLeave(code) ==
    /\ epExit' = code
    /\ epPc' = "exited"

epframe == <<dir, inodes, pc, imageName, getvars, imageStore, vmDebug, digest, disk,
             tempf, spawnopts, cmdArgs, hvExit, vmErr, events, runs, spawnErr,
             provvars>>

\* /bin/bash /entrypoint args...; set -euo pipefail
EpStart ==
    /\ epPc = "idle"
    /\ \E args \in EpArgLists : epArgs' = args
    /\ epPc' = "disk"
    /\ UNCHANGED <<loops, epDisk, epDev, epRc, epInstall, epExit, epframe>>

\* disk=$1; shift: with set -u the shell leaves on an unset parameter
EpSetDisk ==
    /\ epPc = "disk"
    /\ \/ /\ epArgs # <<>>
          /\ epDisk' = Head(epArgs)
          /\ epArgs' = Tail(epArgs)
          /\ epPc' = "losetup"
          /\ UNCHANGED epExit
       \/ /\ epArgs = <<>>
          /\ EpLeave(1)
          /\ UNCHANGED <<epDisk, epArgs>>
    /\ UNCHANGED <<loops, epDev, epRc, epInstall, epframe>>

\* the loop devices that are free, and the first of them
FreeLoops == {i \in 1..Len(LoopDevs) : loops[LoopDevs[i]] = ""}
FirstFree == LoopDevs[CHOOSE i \in FreeLoops : \A j \in FreeLoops : i <= j]

\* dev=$(losetup --show -P -f "$disk"): the first free device is attached;
\* with set -e the shell leaves if there is none
EpLosetup ==
    /\ epPc = "losetup"
    /\ \/ /\ FreeLoops # {}
          /\ loops' = [loops EXCEPT ![FirstFree] = epDisk]
          /\ epDev' = FirstFree
          /\ epPc' = "install"
          /\ UNCHANGED epExit
       \/ /\ FreeLoops = {}
          /\ EpLeave(1)
          /\ UNCHANGED <<loops, epDev>>
    /\ UNCHANGED <<epArgs, epDisk, epRc, epInstall, epframe>>

\* rc=0; set +e; bootc install to-disk ... --via-loopback $1; rc=$?: $1 is
\* what shift left; set -u is still on, so the shell leaves if it is unset
EpInstall ==
    /\ epPc = "install"
    /\ \/ /\ epArgs # <<>>
          /\ \E status \in {0, 1} :
                /\ epInstall' = [ran |-> TRUE, target |-> Head(epArgs), status |-> status]
                /\ epRc' = status
          /\ epPc' = "detach"
          /\ UNCHANGED epExit
       \/ /\ epArgs = <<>>
          /\ epRc' = 0
          /\ EpLeave(1)
          /\ UNCHANGED epInstall
    /\ UNCHANGED <<loops, epArgs, epDisk, epDev, epframe>>

\* losetup -d /dev/loop0
EpDetach ==
    /\ epPc = "detach"
    /\ loops' = [loops EXCEPT !["/dev/loop0"] = ""]
    /\ epPc' = "exit"
    /\ UNCHANGED <<epArgs, epDisk, epDev, epRc, epInstall, epExit, epframe>>

\* exit $rc
EpExit ==
    /\ epPc = "exit"
    /\ EpLeave(epRc)
    /\ UNCHANGED <<loops, epArgs, epDisk, epDev, epRc, epInstall, epframe>>

\* the container is gone; the host's loop devices stay as they are
EpReap ==
    /\ epPc = "exited"
    /\ epPc' = "idle"
    /\ epArgs' = <<>>
    /\ epDisk' = ""
    /\ epDev' = NoLoop
    /\ epRc' = 0
    /\ epInstall' = NoInstall
    /\ epExit' = -1
    /\ UNCHANGED <<loops, epframe>>

EntrypointStep ==
    \/ EpStart
    \/ EpSetDisk
    \/ EpLosetup
    \/ EpInstall
    \/ EpDetach
    \/ EpExit
    \/ EpReap

\* ------------------------------------------------------- specifications

\* the cache directories a run may start from: any subset of the cache
\* paths holds a complete disk, with any of the attribute values
InitCache ==
    \E present \in SUBSET CachePaths :
      \E x \in [present -> InitXattrs] :
        /\ dir = [n \in present |-> InitIno(n.base)]
        /\ inodes = [i \in {InitIno(n.base) : n \in present} |->
                        File("complete", x[FinalName(i.base)], FALSE)]

InitCallers ==
    /\ InitCache
    /\ pc = [p \in Callers |-> "idle"]
    /\ imageName = [p \in Callers |-> <<>>]
    /\ imageDigest = [p \in Callers |-> ""]
    /\ f = [p \in Callers |-> NoName]
    /\ temporaryDisk = [p \in Callers |-> NoName]
    /\ temporaryEntrypoint = [p \in Callers |-> NoName]
    /\ doCleanupDisk = [p \in Callers |-> FALSE]
    /\ ret = [p \in Callers |-> [path |-> NoName, err |-> NoErr]]
    /\ builds = [p \in Callers |-> 0]
    /\ calls = [p \in Callers |-> 0]
    /\ snap = [dir |-> dir, inodes |-> inodes]
    /\ prev = NoCall
    /\ vmDebug = FALSE
    /\ digest = ""
    /\ disk = NoName
    /\ tempf = NoName
    /\ spawnopts = NoOpts
    /\ cmdArgs = NoArgs
    /\ hvExit = -1
    /\ vmErr = NoErr
    /\ events = <<>>
    /\ runs = 0
    /\ spawnErr = NoErr
    /\ activeVM = NoActive
    /\ lsPc = "idle"
    /\ mms = <<>>
    /\ response = <<>>
    /\ lsErr = NoErr
    /\ probes = <<>>
    /\ epPc = "idle"
    /\ epDisk = ""
    /\ epDev = NoLoop
    /\ epRc = 0
    /\ epInstall = NoInstall
    /\ epExit = -1

\* no machine is persisted, no loop device is attached, the entrypoint has
\* no parameters yet
InitHost ==
    /\ machines = <<>>
    /\ loops = [d \in {LoopDevs[i] : i \in 1..Len(LoopDevs)} |-> ""]
    /\ epArgs = <<>>

\* no image is in the engine's local store
Init ==
    /\ InitCallers
    /\ InitHost
    /\ imageStore = [i \in ImageNames |-> ""]

\* callers in separate processes, interleaved at system calls
Next == \E p \in Callers : Call(p) \/ CodeStep(p) \/ Finish(p)

Spec == Init /\ [][Next]_vars

\* one caller, its calls made one at a time, nobody else touching the cache
NextSeq == SeqCall(1) \/ CodeStep(1) \/ SeqFinish(1)

SpecSeq == Init /\ [][NextSeq]_vars

\* vmrun invocations, one after another; each image is in the local store
\* with some digest, or absent
InitVmrun ==
    /\ InitCallers
    /\ InitHost
    /\ imageStore \in [ImageNames -> Digests \cup {""}]

NextVmrun == VmrunStep \/ CodeStep(Runner)

SpecVmrun == InitVmrun /\ [][NextVmrun]_vars

\* the provider's operations, one after another, over any persisted records
InitProvider ==
    /\ InitCallers
    /\ imageStore = [i \in ImageNames |-> ""]
    /\ machines \in MachineLists
    /\ loops = [d \in {LoopDevs[i] : i \in 1..Len(LoopDevs)} |-> ""]
    /\ epArgs = <<>>

NextProvider == ProviderStep

SpecProvider == InitProvider /\ [][NextProvider]_vars

\* runs of the entrypoint, one after another, on a host where any of the
\* loop devices may be in use
InitEntrypoint ==
    /\ InitCallers
    /\ imageStore = [i \in ImageNames |-> ""]
    /\ machines = <<>>
    /\ loops \in [{LoopDevs[i] : i \in 1..Len(LoopDevs)} -> {"", "/other"}]
    /\ epArgs = <<>>

NextEntrypoint == EntrypointStep

SpecEntrypoint == InitEntrypoint /\ [][NextEntrypoint]_vars

\* ================================================================ claims

\* the bytes of the metadata record {"imageDigest":"d"}
MetaBytes(d) == <<"{", "imageDigest", ":", d, "}">>

\* a file that createDiskImage built: created as a temporary disk
BuiltBy(i, p) == i.kind = "podman-bootc-tempdisk" /\ i.p = p

\* a complete disk carrying the metadata of digest d
CompleteWith(file, d) == file.data = "complete" /\ file.xattr = Xattr(MetaBytes(d))

PreBuildErrs == {"createtemp", "ftruncate", "createentry", "copy", "chmod"}
RebuildErrs == PreBuildErrs \cup {"build", "setxattr", "rename"}

\* C1: in every state of racing getOrCreateDiskImage calls, also while a
\* build subprocess runs or after it failed, the file under a final cache
\* name is absent, or the unchanged disk that was there at the start, or a
\* complete disk built by createDiskImage that carries digest metadata;
\* never an empty, sparse or partially built file.
C1_AtomicPublish ==
    \A n \in CachePaths :
        n \in DOMAIN dir =>
            \/ /\ n \in DOMAIN snap.dir
               /\ dir[n] = snap.dir[n]
               /\ inodes[dir[n]] = snap.inodes[dir[n]]
            \/ /\ \E p \in Callers : BuiltBy(dir[n], p)
               /\ \E d \in Digests : CompleteWith(inodes[dir[n]], d)

\* C1 witness: one caller's build subprocess is running on a partial
\* temporary disk while the final name holds the disk the other caller built
C1_Witness ==
    \E p, q \in Callers :
        /\ p # q
        /\ pc[p] = "wait"
        /\ inodes[temporaryDisk[p]].data = "partial"
        /\ DiskPath(p) \in DOMAIN dir
        /\ BuiltBy(dir[DiskPath(p)], q)

\* C2: the disk handed to the hypervisor (SpawnTransientOpts.Disk) is the
\* private copy vmrun made, never the cache's own file.
C2_HypervisorGetsPrivateCopy ==
    pc[Runner] \in {"st:setup", "st:run", "st:wait"} =>
        /\ spawnopts.Disk = tempf
        /\ spawnopts.Disk \notin CachePaths

\* C3: with two callers inside getOrCreateDiskImage for the same image name
\* and digest, a complete disk with matching metadata that one of them
\* published under the final name is never deleted by a step: the name still
\* holds a file afterwards.
C3_PublishedNeverDeleted ==
    [][\A p, q \in Callers :
         ( /\ p # q
           /\ pc[p] # "idle" /\ pc[q] # "idle"
           /\ imageName[p] = imageName[q]
           /\ imageDigest[p] = imageDigest[q]
           /\ DiskPath(q) \in DOMAIN dir
           /\ BuiltBy(dir[DiskPath(q)], q)
           /\ CompleteWith(inodes[dir[DiskPath(q)]], imageDigest[q]) )
         => DiskPath(q) \in DOMAIN dir']_vars

\* the sequential caller's call has returned
Returned == pc[1] = "ret"

\* C4: two calls in sequence with the same image name and digest, nobody
\* else touching the cache, both returning a path: the build subprocess ran
\* at most once across the two and both returned the same path.
C4_Idempotent ==
    ( /\ Returned
      /\ prev.valid
      /\ prev.imageName = imageName[1]
      /\ prev.imageDigest = imageDigest[1]
      /\ prev.err = NoErr
      /\ ret[1].err = NoErr )
    => /\ prev.builds + builds[1] <= 1
       /\ ret[1].path = prev.path

\* C4 witness: the first call built the disk, the second returned it
C4_Witness ==
    /\ Returned
    /\ prev.valid
    /\ prev.imageName = imageName[1]
    /\ prev.imageDigest = imageDigest[1]
    /\ prev.err = NoErr
    /\ ret[1].err = NoErr
    /\ prev.builds = 1
    /\ builds[1] = 0

\* the file the current call found at its cache path
FoundFile == snap.inodes[snap.dir[DiskPath(1)]]
Found == DiskPath(1) \in DOMAIN snap.dir

\* the call found a file whose metadata is the record of the requested digest
FoundMatch == Found /\ FoundFile.xattr = Xattr(MetaBytes(imageDigest[1]))

\* C5: when the file at the cache path carries parseable metadata whose
\* digest equals the requested one, no step of the call runs a subprocess or
\* changes the cache directory (no file or metadata modified or removed, no
\* temporary file created), and the call that opened the file returns the
\* cache path.
C5_CacheHitFrame ==
    (pc[1] # "idle" /\ FoundMatch) =>
        /\ builds[1] = 0
        /\ dir = snap.dir
        /\ inodes = snap.inodes
        /\ (Returned /\ ret[1].err # "open") =>
               ret[1] = [path |-> DiskPath(1), err |-> NoErr]

\* C5 witness: a call that found matching metadata has returned the path
C5_Witness == Returned /\ FoundMatch /\ ret[1].path = DiskPath(1)

\* the call found a file with parseable metadata of another digest
FoundMismatch ==
    /\ Found
    /\ \/ \E d \in Digests \ {imageDigest[1]} : FoundFile.xattr = Xattr(MetaBytes(d))
       \/ FoundFile.xattr = Xattr(<<"{", "}">>)

\* the file under the call's final name is the disk this call built, with
\* the requested digest in its metadata, and what the call found there is
\* under no name any more
NewDiskPublished ==
    /\ DiskPath(1) \in DOMAIN dir
    /\ dir[DiskPath(1)] = temporaryDisk[1]
    /\ CompleteWith(inodes[dir[DiskPath(1)]], imageDigest[1])
    /\ Unmarshal(inodes[dir[DiskPath(1)]].xattr.val) =
           [ok |-> TRUE, ImageDigest |-> imageDigest[1]]
    /\ Found => \A n \in DOMAIN dir : dir[n] # snap.dir[DiskPath(1)]

\* C6: when the cached file carries metadata with another digest, the call
\* runs the build subprocess exactly once (not at all only if a step before
\* the subprocess failed) and on success the final name holds the newly
\* built disk with the new digest; the old content is gone from that name.
C6_Invalidation ==
    (Returned /\ FoundMismatch) =>
        /\ builds[1] <= 1
        /\ (builds[1] = 0) => ret[1].err \in PreBuildErrs \cup {"open"}
        /\ (ret[1].err = NoErr) =>
               /\ builds[1] = 1
               /\ ret[1].path = DiskPath(1)
               /\ NewDiskPublished

\* C6 witness: a call that found another digest has rebuilt and returned
C6_Witness == Returned /\ FoundMismatch /\ ret[1].err = NoErr /\ builds[1] = 1

\* C7: with no file at the cache path the call does not fail on the missing
\* file: it runs the build subprocess exactly once (not at all only if a step
\* before the subprocess failed) and on success the cache path holds a file
\* whose metadata digest is the requested one.
C7_EmptyCache ==
    (Returned /\ ~Found) =>
        /\ ret[1].err # "open"
        /\ builds[1] <= 1
        /\ (builds[1] = 0) => ret[1].err \in PreBuildErrs
        /\ (ret[1].err = NoErr) =>
               /\ builds[1] = 1
               /\ ret[1].path = DiskPath(1)
               /\ NewDiskPublished

\* C7 witness: a call on an empty cache path has built and returned
C7_Witness == Returned /\ ~Found /\ ret[1].err = NoErr /\ builds[1] = 1

\* the metadata of the file the call found is missing, unreadable (longer
\* than the read buffer) or unparseable
FoundMissing == Found /\ ~FoundFile.xattr.present
FoundUnreadable ==
    Found /\ FoundFile.xattr.present /\ ByteLen(FoundFile.xattr.val) > XattrBufSize
FoundUnparseable == Found /\ FoundFile.xattr = Xattr(<<"junk">>)
FoundDefect == FoundMissing \/ FoundUnreadable \/ FoundUnparseable

FinalUntouched ==
    /\ (DiskPath(1) \in DOMAIN dir) = Found
    /\ Found => /\ dir[DiskPath(1)] = snap.dir[DiskPath(1)]
                /\ inodes[dir[DiskPath(1)]] = FoundFile

\* C9 as stated: when the build subprocess fails, the call returns an error
\* after one subprocess attempt and the final-named file and its metadata
\* are what they were before the call, for every prior cache state.
C9_BuildFailureLeavesCache ==
    (Returned /\ ret[1].err = "build") => (builds[1] = 1 /\ FinalUntouched)

\* C9 as amended: when the build subprocess fails, the call returns an error
\* after one subprocess attempt; the final-named file and its metadata are
\* what they were before the call when the path was empty or the file had
\* parseable or unparseable metadata, and the file is gone (deleted before
\* the build) when its metadata was missing or unreadable.
C9_BuildFailureAmended ==
    (Returned /\ ret[1].err = "build") =>
        /\ builds[1] = 1
        /\ IF FoundMissing \/ FoundUnreadable
           THEN DiskPath(1) \notin DOMAIN dir
           ELSE FinalUntouched

\* C9 witness: a build failed in a call that found a file with no metadata
C9_Witness == Returned /\ ret[1].err = "build" /\ FoundMissing

\* C10: on every return of createDiskImage no temporary disk and no
\* temporary entrypoint created by the call remains in the cache directory.
C10_NoTempLeftBehind ==
    Returned =>
        /\ temporaryDisk[1] \notin DOMAIN dir
        /\ temporaryEntrypoint[1] \notin DOMAIN dir

\* what a vmrun does between its image resolution and the hypervisor's start
StepsToSpawn == <<"digest", "getdisk", "print", "clone", "provider", "SpawnTransient">>

\* the errors vmrun can return before it calls SpawnTransient
BeforeSpawnErrs == {"pull", "inspect", "open", "cp", "provider"} \cup RebuildErrs

\* the error vmrun returns when the step it did last failed
ErrOfLast(e) ==
    CASE e = "pull-failed" -> {"pull"}
      [] e = "digest-failed" -> {"inspect"}
      [] e = "getdisk" -> {"open"} \cup RebuildErrs
      [] e = "print" -> {"createtemp"}
      [] e = "clone" -> {"cp"}
      [] e = "provider" -> {"provider"}
      [] OTHER -> {NoErr} \cup SpawnSetupErrs

\* C11: SpawnTransient is called, and the hypervisor started, only after the
\* digest was resolved, the disk got or built, its path printed, the disk
\* cloned and the provider selected, in that order, each with success; a
\* vmrun whose pull, digest inspection, getOrCreateDiskImage, clone or
\* provider lookup failed returns that error and has not called SpawnTransient
C11_SpawnOnlyAfterDisk ==
    /\ \A i \in 1..Len(events) :
          /\ events[i] = "SpawnTransient" =>
                SubSeq(events, 1, i) \in {<<"inspect-ok">> \o StepsToSpawn,
                                          <<"inspect-failed", "pull">> \o StepsToSpawn}
          /\ events[i] = "spawn" => i > 1 /\ events[i - 1] = "SpawnTransient"
    /\ pc[Runner] \in {"st:setup", "st:run", "st:wait", "st:ret"} =>
          /\ digest \in Digests
          /\ ret[Runner].err = NoErr
          /\ disk = DiskPath(Runner)
    /\ pc[Runner] = "vm:done" /\ events # <<>> =>
          vmErr \in ErrOfLast(events[Len(events)])
    /\ pc[Runner] = "vm:done" /\ vmErr \in BeforeSpawnErrs =>
          \A i \in 1..Len(events) : events[i] \notin {"SpawnTransient", "spawn"}

\* the hypervisor runs after a pull
C11_Witness ==
    /\ pc[Runner] = "st:wait"
    /\ events = <<"inspect-failed", "pull">> \o StepsToSpawn \o <<"spawn">>

\* the hypervisor of the current SpawnTransient call was started
Spawned == events # <<>> /\ events[Len(events)] = "spawn"

\* C12: SpawnTransient returns only when the hypervisor has exited, and once
\* the command line was constructed it returns nil whatever the exit status
\* was; vmrun then returns nil too
C12_ExitStatusOnlyLogged ==
    /\ pc[Runner] = "st:wait" => hvExit = -1
    /\ pc[Runner] = "st:ret" /\ Spawned => hvExit \in {0, 1} /\ spawnErr = NoErr
    /\ pc[Runner] = "vm:done" /\ Spawned => hvExit \in {0, 1} /\ vmErr = NoErr

\* the hypervisor failed and vmrun has returned
C12_Witness == pc[Runner] = "vm:done" /\ Spawned /\ hvExit = 1 /\ vmErr = NoErr

\* the kinds of the devices of a list, in order
DevKinds(devs) == [i \in 1..Len(devs) |-> devs[i].dev]

\* C13: the devices of a transient VM's command line are entropy, disk,
\* graphics, pointer, keyboard with Gui and entropy, disk, stdio console
\* without, in this order, and the disk is the one of the options
C13_DeviceList ==
    cmdArgs # NoArgs =>
        /\ DevKinds(cmdArgs.devices) =
              IF spawnopts.Gui
              THEN <<"rng", "blk", "gpu", "input-pointing", "input-keyboard">>
              ELSE <<"rng", "blk", "serial-stdio">>
        /\ cmdArgs.devices[2].arg = spawnopts.Disk

\* a headless hypervisor runs
C13_Witness == pc[Runner] = "st:wait" /\ ~spawnopts.Gui /\ Len(cmdArgs.devices) = 3

\* the positions of the persisted records that are Running or Starting
ActiveRecords == {i \in 1..Len(machines) : machines[i].State \in {"running", "starting"}}

\* C14: CheckExclusiveActiveVM, when getVMInfos gave the records, returns
\* (true, name) with the name of the first record in scan order that is
\* Running or Starting, and (false, "") exactly when no record is; a single
\* Running record among Stopped ones gives its name
C14_FirstActive ==
    activeVM.done /\ activeVM.err = NoErr =>
        /\ activeVM.active <=> ActiveRecords # {}
        /\ ActiveRecords = {} => activeVM.name = ""
        /\ \A i \in ActiveRecords :
              (\A j \in ActiveRecords : i <= j) => activeVM.name = machines[i].Name
        /\ \A i \in 1..Len(machines) :
              ActiveRecords = {i} /\ machines[i].State = "running" =>
                  activeVM.active /\ activeVM.name = machines[i].Name

\* a Starting record after a Stopped one was found
C14_Witness ==
    /\ activeVM.done
    /\ activeVM.active
    /\ Len(machines) = 2
    /\ machines[1].State = "stopped"
    /\ machines[2].State = "starting"
    /\ activeVM.name = machines[2].Name

\* a probe of the current listing failed with an error other than
\* connection refused
ProbeFailed == \E i \in 1..Len(probes) : probes[i] = "EIO"

\* C15: in List a record whose probe is refused is listed with Running and
\* Starting both false and the records after it are still listed; a probe
\* failing otherwise ends the listing with that error and no list
C15_ListProbeErrors ==
    /\ \A i \in 1..Len(response) :
          /\ response[i].Name = mms[i].Name
          /\ probes[i] = "ECONNREFUSED" =>
                ~response[i].Running /\ ~response[i].Starting
          /\ probes[i] = mms[i].State =>
                /\ response[i].Running <=> mms[i].State = "running"
                /\ response[i].Starting <=> mms[i].State = "starting"
    /\ lsPc = "done" /\ lsErr # "load" /\ ~ProbeFailed =>
          /\ lsErr = NoErr
          /\ Len(response) = Len(machines)
    /\ ProbeFailed =>
          /\ lsPc = "done"
          /\ lsErr = "EIO"
          /\ response = <<>>
          /\ probes[Len(probes)] = "EIO"

\* a listing went on after a refused probe
C15_Witness ==
    /\ lsPc = "done"
    /\ lsErr = NoErr
    /\ probes = <<"ECONNREFUSED", "running">>
    /\ Len(response) = 2
    /\ response[2].Running

\* a listing was given up after a listed record
C15_WitnessAbort ==
    /\ lsPc = "done"
    /\ lsErr = "EIO"
    /\ Len(probes) = 2
    /\ response = <<>>

\* C16: when the call found a file whose metadata is missing, unreadable or
\* unparseable, no file is at the final cache path once the rebuild's build
\* subprocess has been started
C16_StaleDeletedBeforeBuild ==
    pc[1] = "wait" /\ FoundDefect => DiskPath(1) \notin DOMAIN dir

\* the positions of a caller inside getOrCreateDiskImage
InGetDisk ==
    {"open", "getxattr", "remove", "createtemp", "ftruncate", "createentry", "copy",
     "chmod", "run", "wait", "setxattr", "rename", "ret"}

\* C17: vmrun pulls only after a failed first inspection; the digest is
\* the output of an inspection made after the first one and after the pull,
\* if any; a failed pull or a failed digest inspection ends vmrun with that
\* error; getOrCreateDiskImage is only ever called with the digest such an
\* inspection gave
C17_DigestFromInspection ==
    /\ \A i \in 1..Len(events) :
          /\ events[i] \in {"pull", "pull-failed"} =>
                i = 2 /\ events[1] = "inspect-failed"
          /\ events[i] \in {"digest", "digest-failed"} =>
                SubSeq(events, 1, i - 1) \in {<<"inspect-ok">>, <<"inspect-failed", "pull">>}
          /\ events[i] = "getdisk" => i > 1 /\ events[i - 1] = "digest"
          /\ events[i] = "pull-failed" =>
                i = Len(events) /\ pc[Runner] \in {"vm:done", "idle"}
          /\ events[i] = "digest-failed" =>
                i = Len(events) /\ pc[Runner] \in {"vm:done", "idle"}
    /\ pc[Runner] = "vm:done" /\ events # <<>> =>
          /\ events[Len(events)] = "pull-failed" => vmErr = "pull"
          /\ events[Len(events)] = "digest-failed" => vmErr = "inspect"
    /\ pc[Runner] \in InGetDisk =>
          /\ imageDigest[Runner] = digest
          /\ digest \in Digests
          /\ digest = imageStore[imageName[Runner]]

\* getOrCreateDiskImage has run with the digest of a pulled image
C17_Witness ==
    /\ pc[Runner] = "ret"
    /\ events = <<"inspect-failed", "pull", "digest", "getdisk">>
    /\ imageDigest[Runner] = imageStore[imageName[Runner]]

\* C18: when a run of the entrypoint has ended, the loop device it attached
\* is detached again; if the installer ran, it ran against the attached
\* disk and the entrypoint's exit status is the installer's
C18_LoopDetached ==
    epPc = "exited" =>
        /\ epDev # NoLoop => loops[epDev] = ""
        /\ epInstall.ran =>
              /\ epInstall.target \in {epDisk, epDev}
              /\ epExit = epInstall.status

\* C19: while SpawnTransient runs, whatever the persisted machines' states
\* are, its setup can go on to the command line and the hypervisor can be
\* started; no step of it changes a persisted record, calls
\* CheckExclusiveActiveVM or probes a machine, or returns an error other
\* than one of its own setup steps
C19_SpawnIgnoresMachines ==
    [][/\ pc[Runner] = "st:setup" => ENABLED (SpawnSetup /\ pc'[Runner] = "st:run")
       /\ pc[Runner] = "st:run" => ENABLED SpawnRun
       /\ pc[Runner] \in {"st:setup", "st:run", "st:wait"} =>
             /\ machines' = machines
             /\ activeVM' = NoActive
             /\ lsPc' = "idle"
             /\ probes' = <<>>
             /\ spawnErr' \in {NoErr} \cup SpawnSetupErrs]_vars

\* the hypervisor of a transient VM runs while a persistent machine is
\* running and another is starting
C19_Witness ==
    /\ pc[Runner] = "st:wait"
    /\ Len(machines) = 2
    /\ machines[1].State = "running"
    /\ machines[2].State = "starting"

\* flag x is on the command line
HasFlag(x) == \E i \in 1..Len(cmdArgs.flags) : cmdArgs.flags[i] = x

\* flag x is on the command line, followed by its value v
HasFlagValue(x, v) ==
    \E i \in 1..(Len(cmdArgs.flags) - 1) :
        cmdArgs.flags[i] = x /\ cmdArgs.flags[i + 1] = v

\* C20: every command line of a transient VM's hypervisor has
\* --restful-uri=none://, has --log-level debug exactly when VMDebug is set
\* and has --gui exactly when Gui is set
C20_Flags ==
    cmdArgs # NoArgs =>
        /\ HasFlag("--restful-uri=none://")
        /\ HasFlagValue("--log-level", "debug") <=> spawnopts.VMDebug
        /\ HasFlag("--gui") <=> spawnopts.Gui

\* a headless hypervisor runs with verbose logging
C20_Witness ==
    /\ pc[Runner] = "st:wait"
    /\ ~spawnopts.Gui
    /\ spawnopts.VMDebug
    /\ cmdArgs.flags = <<"--restful-uri=none://", "--log-level", "debug">>

\* C21: whenever a call of the sequential caller has returned a path
\* without error, whatever calls came before it and however they ended, the
\* path is the call's cache path, a file is there, and the file's metadata
\* attribute parses to exactly the digest the call was given
C21_ReturnedDiskHasDigest ==
    Returned /\ ret[1].err = NoErr =>
        /\ ret[1].path = DiskPathOf(imageName[1])
        /\ ret[1].path \in DOMAIN dir
        /\ LET file == inodes[dir[ret[1].path]]
           IN  /\ file.xattr.present
               /\ Unmarshal(file.xattr.val).ok
               /\ Unmarshal(file.xattr.val).ImageDigest = imageDigest[1]

\* a call returned the path that the call before it had returned for the
\* other image name and another digest
C21_Witness ==
    /\ Returned
    /\ ret[1].err = NoErr
    /\ prev.valid
    /\ prev.err = NoErr
    /\ prev.imageName # imageName[1]
    /\ prev.imageDigest # imageDigest[1]
    /\ prev.path = ret[1].path
    /\ builds[1] = 1

====
